---- MODULE Spec2Model ----
(* Larksuite <-> Moltbot bridge (src/bridge.mjs): the deduplicator, the      *)
(* session-key map, the gateway exchange (askMoltbot), the message handler   *)
(* (handleMessage) and the webhook server, as one state machine.             *)
EXTENDS Integers, Sequences, FiniteSets, TLC

(***************************************************************************)
(* Strings are sequences of tokens; " " is the whitespace token.           *)
(***************************************************************************)
SP == " "
NL == "\n"
Whitespace == {SP, NL, "\n\n"}

RECURSIVE TrimStart(_)
TrimStart(s) ==
    IF s # <<>> /\ Head(s) \in Whitespace THEN TrimStart(Tail(s)) ELSE s

RECURSIVE TrimEnd(_)
TrimEnd(s) ==
    IF s # <<>> /\ s[Len(s)] \in Whitespace THEN TrimEnd(SubSeq(s, 1, Len(s) - 1)) ELSE s

\* String.prototype.trim
Trim(s) == TrimEnd(TrimStart(s))

\* String.prototype.endsWith, for a one-token suffix
EndsWith(s, tok) == s # <<>> /\ s[Len(s)] = tok

(***************************************************************************)
(* Bounds of the model.                                                    *)
(***************************************************************************)
MaxTicks == 2
\* requests one exchange may pass to ws.send
MaxSent == 2
\* close() calls one exchange may make
MaxCloses == 2
\* tokens the reply buffer may hold once a delta was appended to it
MaxBuf == 1
\* events handed to handleMessage
MaxEvents == 2
\* frames and errors one exchange may still get once its promise is settled
MaxLate == 1

(***************************************************************************)
(* Program constants.                                                      *)
(***************************************************************************)
SEEN_TTL_MS == 600000
DEFAULT_THINKING_THRESHOLD_MS == 2500

\* message ids an event may carry; "" is a missing or empty id
MessageIds == {"", "m1", "m2"}

\* how far the wall clock moves between two steps of the program
TickSteps == {1, SEEN_TTL_MS - 1, SEEN_TTL_MS}

\* a field that a JSON object does not carry
Absent == <<"<absent>">>

\* the one handler the exchange is studied on, and the handlers of the router
Handlers == {1, 2}

\* run ids the gateway may use; "" is a missing run id
RunIds == {"", "r1", "r2"}
\* texts a stream frame may carry
FrameTexts == {<<"Hello">>, <<SP, "Hello">>}
FrameDeltas == {<<"Hello">>, <<SP>>}
\* media lists a stream frame may carry
FrameMedia == {Absent, <<>>, <<"u1">>}
\* error messages a frame or a transport error may carry; <<>> is none
AuthErrors == {<<>>, <<"denied">>}
AckErrors == {<<>>, <<"busy">>}
AgentErrors == {<<>>, <<"crashed">>}
TransportErrors == {<<>>, <<"ECONNRESET">>}

\* a parsed gateway frame, every field present (Absent, "" or <<>> when the
\* JSON does not carry it); type "garbage" is a frame JSON.parse rejects
Frame(type, id, event, ok, error, hasPayload, runId, stream, text, delta, media, phase, message) ==
    [type |-> type, id |-> id, event |-> event, ok |-> ok, error |-> error,
     hasPayload |-> hasPayload, runId |-> runId, stream |-> stream, text |-> text,
     delta |-> delta, mediaUrls |-> media, phase |-> phase, message |-> message]

Garbage == Frame("garbage", "", "", FALSE, <<>>, FALSE, "", "", Absent, Absent, Absent, "", <<>>)
Challenge == Frame("event", "", "connect.challenge", FALSE, <<>>, FALSE, "", "", Absent, Absent, Absent, "", <<>>)
AuthRes(ok, error) == Frame("res", "connect", "", ok, error, FALSE, "", "", Absent, Absent, Absent, "", <<>>)
AckRes(ok, runId, error) == Frame("res", "chat-send", "", ok, error, runId # "", runId, "", Absent, Absent, Absent, "", <<>>)
Assistant(event, runId, text, delta, media) ==
    Frame("event", "", event, FALSE, <<>>, TRUE, runId, "assistant", text, delta, media, "", <<>>)
Lifecycle(event, runId, phase, message) ==
    Frame("event", "", event, FALSE, <<>>, TRUE, runId, "lifecycle", Absent, Absent, Absent, phase, message)
NoPayload(event) == Frame("event", "", event, FALSE, <<>>, FALSE, "", "", Absent, Absent, Absent, "", <<>>)

\* run ids a submission ack may return
AckRunIds == {"", "r1"}

Frames ==
    {Garbage, Challenge, NoPayload("chat"), AuthRes(TRUE, <<>>)}
    \cup {AuthRes(FALSE, m) : m \in AuthErrors}
    \cup {AckRes(TRUE, r, <<>>) : r \in AckRunIds}
    \cup {AckRes(FALSE, "", m) : m \in AckErrors}
    \cup {Assistant("agent", r, <<"Hello">>, Absent, Absent) : r \in RunIds}
    \cup {Assistant("agent", "r1", t, Absent, Absent) : t \in FrameTexts}
    \cup {Assistant("chat", "r1", Absent, d, Absent) : d \in FrameDeltas}
    \cup {Assistant("chat", r, Absent, <<SP>>, Absent) : r \in RunIds}
    \cup {Assistant("chat", "r1", Absent, Absent, m) : m \in FrameMedia}
    \cup {Assistant("chat", r, Absent, Absent, <<"u1">>) : r \in RunIds}
    \cup {Assistant("agent", "r1", <<"Hello">>, <<SP>>, <<"u1">>),
          Assistant("tick", "r1", <<"Hello">>, Absent, Absent),
          Lifecycle("agent", "r1", "start", <<>>)}
    \cup {Lifecycle("chat", r, "end", <<>>) : r \in RunIds}
    \cup {Lifecycle("agent", "r1", "error", m) : m \in AgentErrors}
    \cup {Lifecycle("agent", r, "error", <<"crashed">>) : r \in RunIds}

\* what copying the inbound image into the agent workspace can do
CopyOutcomes == {"ok", "empty", "throws"}

VARIABLES
    now,        \* Date.now(), ms from an origin before the process started
    ticks,      \* clock advances so far (bounded by MaxTicks)
    seen,       \* the dedup Map: message id -> time of first sight
    lastDedup,  \* the last isDuplicate call: its argument, time, the entry found, result
    ex,         \* per handler: the askMoltbot call in progress (socket, closure variables, promise)
    uuidCtr,    \* idempotency keys drawn from uuid() so far: the n-th is the fresh value n
    hs,         \* per handler: the handleMessage call in progress (locals, position, timer)
    sessionOverrides,   \* the reset Map: chat id -> suffix
    sessHist,   \* per chat: the session keys resolved so far, and whether a reset came between
    nEvents,    \* handleMessage calls so far (bounded by MaxEvents)
    THINKING_THRESHOLD_MS,  \* the configured placeholder threshold
    VERIFICATION_TOKEN,     \* the configured verification token ("" when not configured)
    ENCRYPT_KEY,            \* the configured payload encryption key ("" when not configured)
    immediate,  \* the events handed to setImmediate and not yet run, oldest first
    lastHttp    \* the last webhook request and the answer it got

clockVars == <<now, ticks>>
dedupVars == <<seen, lastDedup>>
exVars == <<ex, uuidCtr>>
routerVars == <<hs, sessionOverrides, sessHist, nEvents>>
cfgVars == <<THINKING_THRESHOLD_MS>>
httpVars == <<VERIFICATION_TOKEN, ENCRYPT_KEY, immediate, lastHttp>>

vars == <<now, ticks, seen, lastDedup, ex, uuidCtr, hs, sessionOverrides, sessHist,
          nEvents, THINKING_THRESHOLD_MS, VERIFICATION_TOKEN, ENCRYPT_KEY, immediate, lastHttp>>

NoCall == [n |-> 0]

(***************************************************************************)
(* Deduplicator                                                            *)
(***************************************************************************)
\* a sweep that is not the program's: it drops an entry already at the TTL
PurgeOffByOne(s, t) == [k \in {k \in DOMAIN s : ~(t - s[k] >= SEEN_TTL_MS)} |-> s[k]]
\* the sweep at the top of isDuplicate: drops every entry older than the TTL
Purge(s, t) == [k \in {k \in DOMAIN s : ~(t - s[k] > SEEN_TTL_MS)} |-> s[k]]

\* a gate that is not the program's: it looks the id up and does not record it
IsDuplicateNoRecord(messageId, s, t) ==
    LET swept == Purge(s, t) IN
    IF messageId = "" THEN [dup |-> FALSE, seen |-> swept]
    ELSE IF messageId \in DOMAIN swept THEN [dup |-> TRUE, seen |-> swept]
    ELSE [dup |-> FALSE, seen |-> swept]
\* isDuplicate(messageId) at time t on map s: the result and the map it leaves
IsDuplicate(messageId, s, t) ==
    LET swept == Purge(s, t) IN
    IF messageId = "" THEN [dup |-> FALSE, seen |-> swept]
    ELSE IF messageId \in DOMAIN swept THEN [dup |-> TRUE, seen |-> swept]
    ELSE [dup |-> FALSE,
          seen |-> [k \in DOMAIN swept \cup {messageId} |->
                        IF k = messageId THEN t ELSE swept[k]]]

(***************************************************************************)
(* Gateway exchange: askMoltbot                                            *)
(***************************************************************************)
Pending == [state |-> "pending", text |-> <<>>, mediaUrls |-> <<>>]

\* what was seen of the stream of an exchange while it was pending: the fold of the
\* assistant frames that were let through (a full text replaces, a delta appends),
\* the media list of the last of them that carried one, the run ids of the frames
\* that changed the buffer, the media list or the outcome, and whether a frame whose
\* run id differs from the recorded one has come
NoStream == [fold |-> <<>>, media |-> <<>>, runs |-> {}, dropped |-> FALSE]

NoExchange ==
    [ws |-> "NONE", req |-> [text |-> <<>>, sessionKey |-> <<>>, mediaPath |-> ""],
     runId |-> "", buf |-> <<>>, mediaUrls |-> <<>>, closes |-> 0, sent |-> <<>>,
     outcome |-> Pending, scen |-> 0, scenText |-> <<>>, late |-> 0, obs |-> NoStream]

\* new WebSocket(...), runId = null, buf = "", mediaUrls = []
NewExchange(req) == [NoExchange EXCEPT !.ws = "CONNECTING", !.req = req]

\* close(): ws.close() inside try/catch; an open or connecting socket starts closing
Close(e) ==
    [e EXCEPT !.closes = @ + 1,
              !.ws = IF @ \in {"CONNECTING", "OPEN"} THEN "CLOSING" ELSE @]

\* resolve(...) and reject(...) of the promise: only the first one settles it
Resolve(e, text, media) ==
    IF e.outcome.state = "pending"
    THEN [e EXCEPT !.outcome = [state |-> "resolved", text |-> text, mediaUrls |-> media]]
    ELSE e

Reject(e, message) ==
    IF e.outcome.state = "pending"
    THEN [e EXCEPT !.outcome = [state |-> "rejected", text |-> message, mediaUrls |-> <<>>]]
    ELSE e

\* x || fallback, for an error message
OrElse(message, fallback) == IF message # <<>> THEN message ELSE fallback

\* ws.send(JSON.stringify(request)); "open" records whether the socket still transmits
WsSend(e, request) ==
    [e EXCEPT !.sent = Append(@, [request EXCEPT !.open = (e.ws = "OPEN")])]

ConnectReq ==
    [id |-> "connect", method |-> "connect", message |-> <<>>, sessionKey |-> <<>>,
     idempotencyKey |-> 0, attachments |-> Absent, open |-> TRUE]

\* params.message of chat.send: the text, plus the note on the copied image
ChatMessage(req, copy) ==
    IF req.mediaPath = "" \/ copy = "throws" THEN req.text
    ELSE IF copy = "ok" THEN req.text \o <<"\n\n", "[image note]">>
    ELSE IF req.text = <<>> THEN <<"(image)">> ELSE req.text

\* the chat.send request: message, sessionKey, deliver: false, idempotencyKey
ChatSendReq(req, key, copy) ==
    [id |-> "chat-send", method |-> "chat.send", message |-> ChatMessage(req, copy),
     sessionKey |-> req.sessionKey, idempotencyKey |-> key, attachments |-> Absent,
     open |-> TRUE]

\* a client that is not the program's: it lets the challenge go unanswered
OnChallengeSilent(e) == e
\* event connect.challenge
OnChallenge(e) == WsSend(e, ConnectReq)

\* a client that is not the program's: it rejects a failed connect without close()
OnConnectResNoClose(e, f, key, copy) ==
    IF ~f.ok THEN Reject(e, OrElse(f.error, <<"connect failed">>))
    ELSE WsSend(e, ChatSendReq(e.req, key, copy))
\* res connect
OnConnectRes(e, f, key, copy) ==
    IF ~f.ok THEN Reject(Close(e), OrElse(f.error, <<"connect failed">>))
    ELSE WsSend(e, ChatSendReq(e.req, key, copy))

\* a client that is not the program's: it does not keep the run id of the ack
OnChatSendResNoRecord(e, f) ==
    IF ~f.ok THEN Reject(Close(e), OrElse(f.error, <<"chat.send failed">>))
    ELSE e
\* res chat-send
OnChatSendRes(e, f) ==
    IF ~f.ok THEN Reject(Close(e), OrElse(f.error, <<"chat.send failed">>))
    ELSE IF f.runId # "" THEN [e EXCEPT !.runId = f.runId]
    ELSE e

\* a client that is not the program's: it takes the stream events of every run
OnStreamEventAnyRun(e, f) ==
    IF ~f.hasPayload THEN e
    ELSE IF f.stream = "assistant"
    THEN [e EXCEPT !.buf = IF f.text # Absent THEN f.text
                           ELSE IF f.delta # Absent THEN @ \o f.delta ELSE @,
                   !.mediaUrls = IF f.mediaUrls # Absent THEN f.mediaUrls ELSE @]
    ELSE IF f.stream = "lifecycle"
    THEN IF f.phase = "end" THEN Resolve(Close(e), Trim(e.buf), e.mediaUrls)
         ELSE IF f.phase = "error"
         THEN Reject(Close(e), OrElse(f.message, <<"agent error">>))
         ELSE e
    ELSE e
\* a client that is not the program's: a delta frame replaces the buffer
OnStreamEventDeltaReplaces(e, f) ==
    IF ~f.hasPayload \/ (e.runId # "" /\ f.runId # e.runId) THEN e
    ELSE IF f.stream = "assistant"
    THEN [e EXCEPT !.buf = IF f.text # Absent THEN f.text
                           ELSE IF f.delta # Absent THEN f.delta ELSE @,
                   !.mediaUrls = IF f.mediaUrls # Absent THEN f.mediaUrls ELSE @]
    ELSE IF f.stream = "lifecycle"
    THEN IF f.phase = "end" THEN Resolve(Close(e), Trim(e.buf), e.mediaUrls)
         ELSE IF f.phase = "error"
         THEN Reject(Close(e), OrElse(f.message, <<"agent error">>))
         ELSE e
    ELSE e
\* event agent / chat
OnStreamEvent(e, f) ==
    IF ~f.hasPayload \/ (e.runId # "" /\ f.runId # e.runId) THEN e
    ELSE IF f.stream = "assistant"
    THEN [e EXCEPT !.buf = IF f.text # Absent THEN f.text
                           ELSE IF f.delta # Absent THEN @ \o f.delta ELSE @,
                   !.mediaUrls = IF f.mediaUrls # Absent THEN f.mediaUrls ELSE @]
    ELSE IF f.stream = "lifecycle"
    THEN IF f.phase = "end" THEN Resolve(Close(e), Trim(e.buf), e.mediaUrls)
         ELSE IF f.phase = "error"
         THEN Reject(Close(e), OrElse(f.message, <<"agent error">>))
         ELSE e
    ELSE e

\* ws.on("message"): the closure state after frame f
HandleFrame(e, f, key, copy) ==
    IF f.type = "garbage" THEN e
    ELSE IF f.type = "event" /\ f.event = "connect.challenge" THEN OnChallenge(e)
    ELSE IF f.type = "res" /\ f.id = "connect" THEN OnConnectRes(e, f, key, copy)
    ELSE IF f.type = "res" /\ f.id = "chat-send" THEN OnChatSendRes(e, f)
    ELSE IF f.type = "event" /\ f.event \in {"agent", "chat"} THEN OnStreamEvent(e, f)
    ELSE e

\* an agent or chat event that carries a payload
IsStreamEvent(f) == f.type = "event" /\ f.event \in {"agent", "chat"} /\ f.hasPayload

\* the stream record of exchange e once frame f was handled, e becoming after
Observe(e, f, after) ==
    LET o == e.obs
        through == e.runId = "" \/ f.runId = e.runId
    IN
    IF e.outcome # Pending \/ ~IsStreamEvent(f) THEN o
    ELSE [fold |-> IF through /\ f.stream = "assistant"
                   THEN IF f.text # Absent THEN f.text
                        ELSE IF f.delta # Absent THEN o.fold \o f.delta ELSE o.fold
                   ELSE o.fold,
          media |-> IF through /\ f.stream = "assistant" /\ f.mediaUrls # Absent
                    THEN f.mediaUrls ELSE o.media,
          runs |-> IF after.buf # e.buf \/ after.mediaUrls # e.mediaUrls
                      \/ after.outcome # e.outcome
                   THEN o.runs \cup {f.runId} ELSE o.runs,
          dropped |-> o.dropped \/ (e.runId # "" /\ f.runId # e.runId)]

\* whether handling f calls uuid()
CallsUuid(f) == f.type = "res" /\ f.id = "connect" /\ f.ok

\* a client that is not the program's: on a transport error it closes and leaves
\* the promise pending
HandleErrorCloseOnly(e, message) == Close(e)
\* ws.on("error"): close(); reject(e)
HandleError(e, message) == Reject(Close(e), message)

\* progress of the feed challenge, auth success, ack with a run id, full text
\* "Hello" for the run, lifecycle end for the run; -1 once the feed departs from it
ScenarioStep(e, f) ==
    LET forRun == /\ f.type = "event" /\ f.event \in {"agent", "chat"}
                  /\ f.hasPayload /\ f.runId = e.runId
    IN
    IF e.scen = 0 /\ f = Challenge THEN 1
    ELSE IF e.scen = 1 /\ f = AuthRes(TRUE, <<>>) THEN 2
    ELSE IF e.scen = 2 /\ f.type = "res" /\ f.id = "chat-send" /\ f.ok /\ f.runId # "" THEN 3
    ELSE IF e.scen = 3 /\ forRun /\ f.stream = "assistant" /\ f.text # Absent THEN 4
    ELSE IF e.scen = 4 /\ forRun /\ f.stream = "lifecycle" /\ f.phase = "end" THEN 5
    ELSE -1

\* the text of the feed's full-text frame, once the feed has got that far
ScenarioText(e, f) ==
    IF ScenarioStep(e, f) = 4 THEN f.text
    ELSE IF ScenarioStep(e, f) = 5 THEN e.scenText
    ELSE <<>>

(***************************************************************************)
(* Message content                                                         *)
(***************************************************************************)
ChatIds == {"c1", "c2"}

\* String.prototype.toLowerCase, token by token
LowerToken(tok) ==
    CASE tok = "/RESET" -> "/reset"
      [] tok = "/Status" -> "/status"
      [] tok = "How" -> "how"
      [] tok = "Bot" -> "bot"
      [] OTHER -> tok
ToLowerCase(s) == [i \in 1..Len(s) |-> LowerToken(s[i])]

\* a mention token, as /@_user_\d+/ matches it
IsMention(tok) == tok \in {"@_user_1", "@_user_2"}

\* text.replace(/@_user_\d+\s*/g, ""): each mention and the whitespace after it
RECURSIVE StripMentions(_)
StripMentions(s) ==
    IF s = <<>> THEN <<>>
    ELSE IF IsMention(Head(s)) THEN StripMentions(TrimStart(Tail(s)))
    ELSE <<Head(s)>> \o StripMentions(Tail(s))

QuestionWords == {"why", "how", "what", "when", "where", "who", "help"}
\* the sixteen request verbs (Chinese in the source; written here by their pinyin)
RequestVerbs == {"bang", "mafan", "qing", "nengfou", "keyi", "jieshi", "kankan", "paicha",
                 "fenxi", "zongjie", "xie", "gai", "xiu", "cha", "duibi", "fanyi"}
\* the address terms (the last three Chinese in the source)
AddressTerms == {"moltbot", "bot", "assistant", "zhushou", "zhinengti", "xiaoji"}
\* whitespace, comma and colon, ASCII and full-width
AddressSeparators == {SP, NL, ",", ":", "fullwidth,", "fullwidth:"}

\* shouldRespondInGroup(text, mentions)
ShouldRespondInGroup(text, mentions) ==
    \/ mentions > 0
    \/ EndsWith(text, "?") \/ EndsWith(text, "fullwidth?")
    \/ \E i \in 1..Len(text) : LowerToken(text[i]) \in QuestionWords
    \/ \E i \in 1..Len(text) : text[i] \in RequestVerbs
    \/ Len(text) >= 2 /\ LowerToken(text[1]) \in AddressTerms /\ text[2] \in AddressSeparators

\* extractText(node) for the node kinds of a post line
NodeText(node) ==
    CASE node.tag = "text" -> node.text
      [] node.tag = "a" -> (IF node.text # <<>> THEN node.text ELSE node.href)
      [] node.tag = "at" -> <<>>
      [] node.tag = "img" -> <<"[image]">>
      [] OTHER -> <<>>

RECURSIVE LineText(_)
LineText(line) ==
    IF line = <<>> THEN <<>> ELSE NodeText(Head(line)) \o LineText(Tail(line))

\* (post.content || []).map(line => ...).join("\n")
RECURSIVE PostBody(_)
PostBody(lines) ==
    IF lines = <<>> THEN <<>>
    ELSE IF Len(lines) = 1 THEN LineText(lines[1])
    ELSE LineText(Head(lines)) \o <<NL>> \o PostBody(Tail(lines))

\* the text of a post: title, newline, body, trimmed
PostText(post) ==
    Trim((IF post.title # <<>> THEN post.title \o <<NL>> ELSE <<>>) \o PostBody(post.lines))

\* postImageKeys: the image keys of the img nodes, in document order
RECURSIVE LineImageKeys(_)
LineImageKeys(line) ==
    IF line = <<>> THEN <<>>
    ELSE (IF Head(line).tag = "img" /\ Head(line).image_key # ""
          THEN <<Head(line).image_key>> ELSE <<>>) \o LineImageKeys(Tail(line))

RECURSIVE PostImageKeys(_)
PostImageKeys(lines) ==
    IF lines = <<>> THEN <<>> ELSE LineImageKeys(Head(lines)) \o PostImageKeys(Tail(lines))

(***************************************************************************)
(* Session keys                                                            *)
(***************************************************************************)
\* Number.prototype.toString(36): the base-36 digits, most significant first
RECURSIVE ToString36(_)
ToString36(n) ==
    IF n < 36 THEN <<n>> ELSE ToString36(n \div 36) \o <<n % 36>>

\* `larksuite:${chatId}:${suffix}` when the chat has a suffix, else `larksuite:${chatId}`
SessionKey(chatId, overrides) ==
    IF chatId \in DOMAIN overrides
    THEN <<"larksuite", chatId, overrides[chatId]>>
    ELSE <<"larksuite", chatId>>

\* a reset that is not the program's: it leaves the map as it was
ApplyResetKeep(chatId, overrides, t) == overrides
\* sessionOverrides.set(chatId, Date.now().toString(36))
ApplyReset(chatId, overrides, t) ==
    [c \in DOMAIN overrides \cup {chatId} |->
        IF c = chatId THEN ToString36(t) ELSE overrides[c]]

NoHist == [before |-> {}, prev |-> <<>>, last |-> <<>>, viaReset |-> FALSE, resetSince |-> FALSE]

\* the history of a chat after one more key was resolved for it
HistResolve(hist, key) ==
    [before |-> hist.before \cup (IF hist.last # <<>> THEN {hist.last} ELSE {}),
     prev |-> hist.last, last |-> key, viaReset |-> hist.resetSince, resetSince |-> FALSE]

(***************************************************************************)
(* Message handler: handleMessage                                          *)
(***************************************************************************)
NoReply == [text |-> <<>>, mediaUrls |-> <<>>]

\* the locals of one handleMessage call; pc is where it is suspended. entryKey is
\* kept for the record: the session key of the chat as the call was entered
Idle ==
    [pc |-> "idle", chatId |-> "", chatType |-> "", messageId |-> "", mentions |-> 0,
     imageText |-> <<>>, imageKey |-> "", imageKeys |-> <<>>,
     placeholderId |-> "", done |-> FALSE, timer |-> "none", phSent |-> FALSE,
     reply |-> NoReply, trimmed |-> <<>>, mi |-> 0, calls |-> <<>>, asked |-> 0,
     timers |-> 0, entryKey |-> <<>>]

\* one call of the vendor client
Call(op, by, text, key) == [op |-> op, by |-> by, text |-> text, key |-> key]

ResetConfirmation == <<"Session reset">>

\* the reply handleMessage works with once the exchange settled
ReplyOf(outcome) ==
    IF outcome.state = "resolved"
    THEN [text |-> outcome.text, mediaUrls |-> outcome.mediaUrls]
    ELSE [text |-> <<"(System error)", SP>> \o OrElse(outcome.text, <<"Error">>),
          mediaUrls |-> <<>>]

\* the replies that are empty or the sentinel itself
IsSilentExact(trimmed) == trimmed = <<>> \/ trimmed = <<"NO_REPLY">>
\* the replies that are not delivered
IsSilent(trimmed) ==
    trimmed = <<>> \/ trimmed = <<"NO_REPLY">> \/ EndsWith(trimmed, "NO_REPLY")

\* handleMessage from the end of content extraction to its next await, for the
\* handler locals hr, the extracted text and media path, at time t
AfterExtract(hr, text0, mediaPath, overrides, threshold, t) ==
    LET grp == hr.chatType = "group"
        text == IF grp THEN Trim(StripMentions(text0)) ELSE text0
        dropped ==
            \/ text0 = <<>> /\ mediaPath = ""
            \/ grp /\ text = <<>> /\ mediaPath = ""
            \/ grp /\ mediaPath = "" /\ ~ShouldRespondInGroup(text, hr.mentions)
        cmd == ToLowerCase(Trim(text))
        key == SessionKey(hr.chatId, overrides)
        \* the locals still read after this point
        base == [Idle EXCEPT !.chatId = hr.chatId, !.calls = hr.calls]
    IN
    IF dropped
    THEN [h |-> [base EXCEPT !.pc = "done"], overrides |-> overrides,
          reset |-> FALSE, resolved |-> <<>>, ask |-> FALSE, req |-> NoExchange.req]
    ELSE IF cmd = <<"/reset">>
    THEN [h |-> [base EXCEPT !.pc = "resetSend",
                             !.calls = Append(@, Call("create", "handler", ResetConfirmation, <<>>))],
          overrides |-> ApplyReset(hr.chatId, overrides, t),
          reset |-> TRUE, resolved |-> <<>>, ask |-> FALSE, req |-> NoExchange.req]
    ELSE IF cmd = <<"/status">>
    THEN [h |-> [base EXCEPT !.pc = "statusSend",
                             !.calls = Append(@, Call("create", "handler", <<"Session:">>, key))],
          overrides |-> overrides, reset |-> FALSE, resolved |-> key, ask |-> FALSE,
          req |-> NoExchange.req]
    ELSE [h |-> [base EXCEPT !.pc = "asking", !.placeholderId = "", !.done = FALSE,
                             !.entryKey = hr.entryKey,
                             !.timer = IF threshold > 0 THEN "pending" ELSE "none",
                             !.timers = IF threshold > 0 THEN @ + 1 ELSE @,
                             !.asked = @ + 1],
          overrides |-> overrides, reset |-> FALSE, resolved |-> key, ask |-> TRUE,
          req |-> [text |-> text, sessionKey |-> key, mediaPath |-> mediaPath]]

\* handleMessage from its entry to its first await, for event message m
Entry(m, dup, overrides, threshold, t) ==
    LET hr == [Idle EXCEPT !.chatId = m.chat_id, !.chatType = m.chat_type,
                           !.messageId = m.message_id, !.mentions = m.mentions,
                           !.entryKey = SessionKey(m.chat_id, overrides)]
        stop == [h |-> [Idle EXCEPT !.pc = "done", !.chatId = m.chat_id], overrides |-> overrides,
                 reset |-> FALSE, resolved |-> <<>>, ask |-> FALSE, req |-> NoExchange.req]
        wait(keys, text) ==
            [h |-> [hr EXCEPT !.pc = "download", !.imageKey = Head(keys),
                              !.imageKeys = Tail(keys), !.imageText = text,
                              !.calls = Append(@, Call("download", "extract", <<Head(keys)>>, <<>>))],
             overrides |-> overrides, reset |-> FALSE, resolved |-> <<>>, ask |-> FALSE,
             req |-> NoExchange.req]
    IN
    IF m.chat_id = "" \/ dup THEN stop
    ELSE IF m.message_type = "text" /\ m.hasContent
    THEN AfterExtract(hr, IF m.valid THEN Trim(m.text) ELSE <<>>, "", overrides, threshold, t)
    ELSE IF m.message_type = "image" /\ m.hasContent
    THEN IF m.valid /\ m.image_key # ""
         THEN wait(<<m.image_key>>, <<"[image received]">>)
         ELSE AfterExtract(hr, <<>>, "", overrides, threshold, t)
    ELSE IF m.message_type = "post" /\ m.hasContent
    THEN IF ~m.valid THEN AfterExtract(hr, <<>>, "", overrides, threshold, t)
         ELSE IF PostImageKeys(m.post.lines) # <<>>
         THEN wait(PostImageKeys(m.post.lines), PostText(m.post))
         ELSE AfterExtract(hr, PostText(m.post), "", overrides, threshold, t)
    ELSE stop

\* a handler that is not the program's: when the fetch of an image failed it goes on
\* to the next image of the post
AfterDownloadRetry(hr, ok, overrides, threshold, t) ==
    IF ~ok /\ hr.imageKeys # <<>>
    THEN [h |-> [hr EXCEPT !.imageKey = Head(hr.imageKeys), !.imageKeys = Tail(hr.imageKeys),
                           !.calls = Append(@, Call("download", "extract",
                                                    <<Head(hr.imageKeys)>>, <<>>))],
          overrides |-> overrides, reset |-> FALSE, resolved |-> <<>>, ask |-> FALSE,
          req |-> NoExchange.req]
    ELSE AfterExtract(hr, hr.imageText, IF ok THEN hr.imageKey ELSE "", overrides, threshold, t)
\* handleMessage from the return of downloadImage to its next await: downloadImage
\* catches what it meets and returns null, so the loop over postImageKeys is left at
\* its first turn
AfterDownload(hr, ok, overrides, threshold, t) ==
    AfterExtract(hr, hr.imageText, IF ok THEN hr.imageKey ELSE "", overrides, threshold, t)

\* a handler that is not the program's: it leaves the placeholder timer running when
\* the exchange has settled
AfterAskKeepsTimer(hr, outcome) ==
    LET reply == ReplyOf(outcome)
        trimmed == Trim(reply.text)
        fin == [hr EXCEPT !.reply = reply, !.trimmed = trimmed, !.done = TRUE]
    IN
    IF IsSilent(trimmed)
    THEN IF fin.placeholderId # ""
         THEN [fin EXCEPT !.pc = "deleting",
                          !.calls = Append(@, Call("delete", "handler", <<>>, <<>>))]
         ELSE [fin EXCEPT !.pc = "done"]
    ELSE IF fin.placeholderId # ""
    THEN [fin EXCEPT !.pc = "patching",
                     !.calls = Append(@, Call("patch", "handler", trimmed, <<>>))]
    ELSE [fin EXCEPT !.pc = "sending",
                     !.calls = Append(@, Call("create", "handler", trimmed, <<>>))]

\* handleMessage from the settled exchange to its next await
AfterAsk(hr, outcome) ==
    LET reply == ReplyOf(outcome)
        trimmed == Trim(reply.text)
        fin == [hr EXCEPT !.reply = reply, !.trimmed = trimmed, !.done = TRUE,
                          !.timer = IF @ = "pending" THEN "cleared" ELSE @]
    IN
    IF IsSilent(trimmed)
    THEN IF fin.placeholderId # ""
         THEN [fin EXCEPT !.pc = "deleting",
                          !.calls = Append(@, Call("delete", "handler", <<>>, <<>>))]
         ELSE [fin EXCEPT !.pc = "done"]
    ELSE IF fin.placeholderId # ""
    THEN [fin EXCEPT !.pc = "patching",
                     !.calls = Append(@, Call("patch", "handler", trimmed, <<>>))]
    ELSE [fin EXCEPT !.pc = "sending",
                     !.calls = Append(@, Call("create", "handler", trimmed, <<>>))]

\* the media loop: start on item i of reply.mediaUrls, or finish (the name of the
\* temp file, which takes a uuid() of its own, is not part of the state)
MediaItem(hr, i) ==
    IF i <= Len(hr.reply.mediaUrls)
    THEN [hr EXCEPT !.pc = "mediaFetch", !.mi = i,
                    !.calls = Append(@, Call("fetch", "handler", <<hr.reply.mediaUrls[i]>>, <<>>))]
    ELSE [hr EXCEPT !.pc = "done"]

InitWith(thresholds, tokens, keys) ==
    /\ now = 1
    /\ ticks = 0
    /\ seen = << >>
    /\ lastDedup = NoCall
    /\ ex = [h \in Handlers |-> NoExchange]
    /\ uuidCtr = 0
    /\ hs = [h \in Handlers |-> Idle]
    /\ sessionOverrides = << >>
    /\ sessHist = [c \in ChatIds |-> NoHist]
    /\ nEvents = 0
    /\ THINKING_THRESHOLD_MS \in thresholds
    /\ VERIFICATION_TOKEN \in tokens
    /\ ENCRYPT_KEY \in keys
    /\ immediate = <<>>
    /\ lastHttp = [n |-> 0]

\* the process after start-up, the placeholder threshold left at its default
Init == InitWith({DEFAULT_THINKING_THRESHOLD_MS}, {""}, {""})

\* the same, the threshold being either the default or 0 (no placeholder)
InitRouter == InitWith({0, DEFAULT_THINKING_THRESHOLD_MS}, {""}, {""})

\* the same, with or without a verification token and an encryption key
InitWebhook == InitWith({DEFAULT_THINKING_THRESHOLD_MS}, {"", "tok"}, {"", "key"})


\* the socket finishes connecting
WsOpen(h) ==
    /\ ex[h].ws = "CONNECTING"
    /\ ex' = [ex EXCEPT ![h].ws = "OPEN"]
    /\ UNCHANGED <<clockVars, dedupVars, uuidCtr, routerVars, cfgVars, httpVars>>

\* the connection is gone (the peer closed it, or the closing handshake ended)
WsClosed(h) ==
    /\ ex[h].ws \in {"CONNECTING", "OPEN", "CLOSING"}
    /\ ex' = [ex EXCEPT ![h].ws = "CLOSED"]
    /\ UNCHANGED <<clockVars, dedupVars, uuidCtr, routerVars, cfgVars, httpVars>>

\* a frame arrives: the "message" listener runs
OnMessage(h, f, copy) ==
    LET e == ex[h]
        after == HandleFrame(e, f, uuidCtr + 1, copy)
    IN
    /\ e.ws \in {"OPEN", "CLOSING"}
    /\ Len(after.buf) > Len(e.buf) /\ f.text = Absent => Len(after.buf) <= MaxBuf
    /\ Len(after.sent) <= MaxSent
    /\ after.closes <= MaxCloses
    /\ e.outcome # Pending => e.late < MaxLate
    /\ ex' = [ex EXCEPT ![h] = [after EXCEPT !.scen = ScenarioStep(e, f),
                                             !.scenText = ScenarioText(e, f),
                                             !.late = IF e.outcome # Pending THEN @ + 1 ELSE @]]
    /\ uuidCtr' = IF CallsUuid(f) THEN uuidCtr + 1 ELSE uuidCtr
    /\ UNCHANGED <<clockVars, dedupVars, routerVars, cfgVars, httpVars>>

\* a transport error: the "error" listener runs, and the socket is gone after it
OnError(h, message) ==
    LET e == ex[h] IN
    /\ e.ws \in {"CONNECTING", "OPEN", "CLOSING"}
    /\ e.closes < MaxCloses
    /\ e.outcome # Pending => e.late < MaxLate
    /\ ex' = [ex EXCEPT ![h] = [HandleError(e, message) EXCEPT
                                  !.scen = -1, !.scenText = <<>>, !.ws = "CLOSED",
                                  !.late = IF e.outcome # Pending THEN @ + 1 ELSE @]]
    /\ UNCHANGED <<clockVars, dedupVars, uuidCtr, routerVars, cfgVars, httpVars>>

(***************************************************************************)
(* Events                                                                  *)
(***************************************************************************)
NoPost == [title |-> <<>>, lines |-> <<>>]

Message(chat, id, type, hasContent, valid, text, key, post, chatType) ==
    [chat_id |-> chat, message_id |-> id, message_type |-> type, hasContent |-> hasContent,
     valid |-> valid, text |-> text, image_key |-> key, post |-> post, chat_type |-> chatType,
     mentions |-> IF \E i \in 1..Len(text) : IsMention(text[i]) THEN 1 ELSE 0]

TextMsg(chat, id, text, chatType) == Message(chat, id, "text", TRUE, TRUE, text, "", NoPost, chatType)
ImageMsg(chat, id, key, chatType) == Message(chat, id, "image", TRUE, TRUE, <<>>, key, NoPost, chatType)
PostMsg(chat, id, post) == Message(chat, id, "post", TRUE, TRUE, <<>>, "", post, "p2p")

TextNode(text) == [tag |-> "text", text |-> text, href |-> <<>>, image_key |-> ""]
LinkNode(href) == [tag |-> "a", text |-> <<>>, href |-> href, image_key |-> ""]
AtNode == [tag |-> "at", text |-> <<>>, href |-> <<>>, image_key |-> ""]
ImgNode(key) == [tag |-> "img", text |-> <<>>, href |-> <<>>, image_key |-> key]

Posts ==
    {[title |-> <<>>, lines |-> << <<TextNode(<<"hi">>), ImgNode("k1")>>, <<ImgNode("k2")>> >>],
     [title |-> <<"T">>, lines |-> << <<AtNode, LinkNode(<<"url">>)>> >>],
     [title |-> <<>>, lines |-> << <<TextNode(<<"/reset">>)>> >>]}

RawTexts ==
    {<<"hi">>, <<"/reset">>, <<SP, "/RESET">>, <<"/status">>,
     <<"@_user_1", SP, "/reset">>, <<"how", "?">>}

Messages ==
    {TextMsg("c1", id, t, "p2p") : id \in {"", "m1"}, t \in RawTexts}
    \cup {TextMsg("c1", "m1", t, "group") : t \in RawTexts}
    \cup {TextMsg("c2", "m2", t, "p2p") : t \in {<<"hi">>, <<"/reset">>}}
    \cup {TextMsg("", "m1", <<"hi">>, "p2p"),
          Message("c1", "m1", "file", TRUE, TRUE, <<>>, "", NoPost, "p2p"),
          Message("c1", "m1", "text", FALSE, TRUE, <<>>, "", NoPost, "p2p"),
          Message("c1", "m1", "text", TRUE, FALSE, <<>>, "", NoPost, "p2p")}
    \cup {ImageMsg("c1", "m1", k, ct) : k \in {"", "k1"}, ct \in {"p2p", "group"}}
    \cup {PostMsg("c1", "m1", post) : post \in Posts}

\* texts the agent may reply with
ReplyTexts == {<<"Hello">>, <<"NO_REPLY">>, <<"Hello", "NO_REPLY">>}

\* the frames the gateway sends in the runs of the router
RouterFrames ==
    {AuthRes(FALSE, <<"denied">>), AckRes(FALSE, "", <<"busy">>),
     Assistant("chat", "r1", Absent, Absent, <<"u1", "u2">>),
     Lifecycle("chat", "r1", "end", <<>>)}
    \cup {Assistant("agent", "r1", t, Absent, Absent) : t \in ReplyTexts}
    \cup {Lifecycle("agent", "r1", "error", m) : m \in {<<"crashed">>, <<"NO_REPLY">>}}

(***************************************************************************)
(* Steps of handleMessage                                                  *)
(***************************************************************************)
\* the state after a stretch of handleMessage that ran from an await (or its entry)
\* to the next, with result r; exBase is the exchange slot before it
Commit(h, r, exBase) ==
    /\ hs' = [hs EXCEPT ![h] = r.h]
    /\ sessionOverrides' = r.overrides
    /\ ex' = IF r.ask
             THEN [ex EXCEPT ![h] = NewExchange(r.req)]
             ELSE [ex EXCEPT ![h] = exBase]

\* setImmediate(() => handleMessage(event)): the handler runs to its first await
HandleMessage(h, m) ==
    LET called == m.chat_id # ""
        d == IsDuplicate(m.message_id, seen, now)
        r == Entry(m, called /\ d.dup, sessionOverrides, THINKING_THRESHOLD_MS, now)
    IN
    /\ hs[h].pc \in {"idle", "done"}
    /\ hs[h].timer # "sending"
    /\ nEvents' = nEvents + 1
    /\ seen' = IF called THEN d.seen ELSE seen
    /\ Commit(h, r, NoExchange)
    /\ UNCHANGED <<clockVars, lastDedup, uuidCtr, cfgVars, VERIFICATION_TOKEN, ENCRYPT_KEY, lastHttp>>

\* what handleMessage does with the session keys of event message m, noted down in
\* the history of the chat: a reset made, or a key resolved
KeysObserved(m) ==
    LET called == m.chat_id # ""
        d == IsDuplicate(m.message_id, seen, now)
        r == Entry(m, called /\ d.dup, sessionOverrides, THINKING_THRESHOLD_MS, now)
    IN
    sessHist' =
        IF r.reset THEN [sessHist EXCEPT ![r.h.chatId].resetSince = TRUE]
        ELSE IF r.resolved # <<>>
        THEN [sessHist EXCEPT ![r.h.chatId] = HistResolve(@, r.resolved)]
        ELSE sessHist

\* downloadImage returns (a path, or null when it failed)
DownloadDone(h, ok) ==
    LET hr == hs[h]
        r == AfterDownload(hr, ok, sessionOverrides, THINKING_THRESHOLD_MS, now)
    IN
    /\ hr.pc = "download"
    /\ Commit(h, r, ex[h])
    /\ UNCHANGED <<clockVars, dedupVars, uuidCtr, sessHist, nEvents, cfgVars, httpVars>>

\* the confirmation of /reset or the report of /status was sent (or the send failed)
CommandSendDone(h) ==
    /\ hs[h].pc \in {"resetSend", "statusSend"}
    /\ hs' = [hs EXCEPT ![h].pc = "done"]
    /\ UNCHANGED <<clockVars, dedupVars, exVars, sessionOverrides, sessHist, nEvents, cfgVars, httpVars>>

\* the placeholder timer's callback runs, the threshold having elapsed; once the
\* promise of askMoltbot is settled the handler goes on (in a microtask) before any
\* timer callback can run
TimerFire(h) ==
    /\ hs[h].timer = "pending"
    /\ ~(hs[h].pc = "asking" /\ ex[h].outcome # Pending)
    /\ hs' = [hs EXCEPT ![h] =
                IF @.done THEN [@ EXCEPT !.timer = "finished"]
                ELSE [@ EXCEPT !.timer = "sending",
                               !.calls = Append(@, Call("create", "timer", <<"Thinking...">>, <<>>))]]
    /\ UNCHANGED <<clockVars, dedupVars, exVars, sessionOverrides, sessHist, nEvents, cfgVars, httpVars>>

\* the placeholder send returns: with the message id, or failing
PlaceholderDone(h, ok) ==
    /\ hs[h].timer = "sending"
    /\ hs' = [hs EXCEPT ![h].timer = "finished",
                        ![h].placeholderId = IF ok THEN "ph" ELSE "",
                        ![h].phSent = ok]
    /\ UNCHANGED <<clockVars, dedupVars, exVars, sessionOverrides, sessHist, nEvents, cfgVars, httpVars>>

\* await askMoltbot(...) returns or throws: the exchange's promise is settled.
\* Nothing reads the exchange's closure afterwards, and the model forgets it.
AskDone(h) ==
    /\ hs[h].pc = "asking"
    /\ ex[h].outcome.state # "pending"
    /\ hs' = [hs EXCEPT ![h] = AfterAsk(@, ex[h].outcome)]
    /\ ex' = [ex EXCEPT ![h] = NoExchange]
    /\ UNCHANGED <<clockVars, dedupVars, uuidCtr, sessionOverrides, sessHist, nEvents, cfgVars, httpVars>>


\* the delete of the placeholder returns
DeleteDone(h) ==
    /\ hs[h].pc = "deleting"
    /\ hs' = [hs EXCEPT ![h].pc = "done"]
    /\ UNCHANGED <<clockVars, dedupVars, exVars, sessionOverrides, sessHist, nEvents, cfgVars, httpVars>>

\* the edit of the placeholder returns; when it failed the text is sent afresh
PatchDone(h, ok) ==
    /\ hs[h].pc = "patching"
    /\ hs' = [hs EXCEPT ![h] =
                IF ok THEN MediaItem(@, 1)
                ELSE [@ EXCEPT !.pc = "sending",
                               !.calls = Append(@, Call("create", "handler", hs[h].trimmed, <<>>))]]
    /\ UNCHANGED <<clockVars, dedupVars, exVars, sessionOverrides, sessHist, nEvents, cfgVars, httpVars>>

\* the send of the reply text returns; a failure leaves handleMessage through its catch
SendDone(h, ok) ==
    /\ hs[h].pc = "sending"
    /\ hs' = [hs EXCEPT ![h] = IF ok THEN MediaItem(@, 1) ELSE [@ EXCEPT !.pc = "done"]]
    /\ UNCHANGED <<clockVars, dedupVars, exVars, sessionOverrides, sessHist, nEvents, cfgVars, httpVars>>

\* a handler that is not the program's: it gives the media loop up at the first
\* fetch that failed
MediaFetchDoneAbort(h, ok) ==
    /\ hs[h].pc = "mediaFetch"
    /\ hs' = [hs EXCEPT ![h] =
                IF ok THEN [@ EXCEPT !.pc = "mediaUpload",
                                     !.calls = Append(@, Call("upload", "handler", <<>>, <<>>))]
                ELSE [@ EXCEPT !.pc = "done"]]
    /\ UNCHANGED <<clockVars, dedupVars, exVars, sessionOverrides, sessHist, nEvents, cfgVars, httpVars>>

\* downloadUrl settles
MediaFetchDone(h, ok) ==
    /\ hs[h].pc = "mediaFetch"
    /\ hs' = [hs EXCEPT ![h] =
                IF ok THEN [@ EXCEPT !.pc = "mediaUpload",
                                     !.calls = Append(@, Call("upload", "handler", <<>>, <<>>))]
                ELSE MediaItem(@, @.mi + 1)]
    /\ UNCHANGED <<clockVars, dedupVars, exVars, sessionOverrides, sessHist, nEvents, cfgVars, httpVars>>

\* uploadImage returns an image key, or null
MediaUploadDone(h, ok) ==
    /\ hs[h].pc = "mediaUpload"
    /\ hs' = [hs EXCEPT ![h] =
                IF ok THEN [@ EXCEPT !.pc = "mediaSend",
                                     !.calls = Append(@, Call("image", "handler", <<>>, <<>>))]
                ELSE MediaItem(@, @.mi + 1)]
    /\ UNCHANGED <<clockVars, dedupVars, exVars, sessionOverrides, sessHist, nEvents, cfgVars, httpVars>>

\* sendImageMessage returns
MediaSendDone(h) ==
    /\ hs[h].pc = "mediaSend"
    /\ hs' = [hs EXCEPT ![h] = MediaItem(@, @.mi + 1)]
    /\ UNCHANGED <<clockVars, dedupVars, exVars, sessionOverrides, sessHist, nEvents, cfgVars, httpVars>>

\* the outcomes of the image copy that handling f can see
CopyChoices(h, f) ==
    IF CallsUuid(f) /\ ex[h].req.mediaPath # "" THEN CopyOutcomes ELSE {"ok"}

\* the gateway's side of an exchange a handler is waiting for
Waiting(h) == hs[h].pc = "asking" /\ ex[h].outcome = Pending

\* the wall clock advances
Tick(d) ==
    /\ ticks < MaxTicks
    /\ now' = now + d
    /\ ticks' = ticks + 1
    /\ UNCHANGED <<dedupVars, exVars, routerVars, cfgVars, httpVars>>

\* one call of isDuplicate, as handleMessage makes it
DedupCall(id) ==
    LET r == IsDuplicate(id, seen, now) IN
    /\ seen' = r.seen
    /\ lastDedup' = [n |-> 1, id |-> id, at |-> now,
                     had |-> id \in DOMAIN seen,
                     ts |-> IF id \in DOMAIN seen THEN seen[id] ELSE 0,
                     dup |-> r.dup]
    /\ UNCHANGED <<clockVars, exVars, routerVars, cfgVars, httpVars>>

NextDedup ==
    \/ \E d \in TickSteps : Tick(d)
    \/ \E id \in MessageIds : DedupCall(id)

SpecDedup == Init /\ [][NextDedup]_vars

\* how far the wall clock moves between two steps of the router
RouterTicks == {SEEN_TTL_MS + 1}

\* handler h is where the next thing it does may read the clock: Date.now() is read
\* by isDuplicate and by /reset only, in the stretch that starts at the handler's
\* entry or at the return of an inbound image download
ClockRead(h) ==
    \/ hs[h].pc \in {"idle", "done"} /\ nEvents < MaxEvents
    \/ hs[h].pc = "download"

\* a further event arrives
Arrives == nEvents < MaxEvents

Next ==
    \/ \E d \in RouterTicks : ClockRead(1) /\ Tick(d)
    \/ \E m \in Messages : Arrives /\ HandleMessage(1, m) /\ UNCHANGED <<immediate, sessHist>>
    \/ \E ok \in BOOLEAN : DownloadDone(1, ok)
    \/ CommandSendDone(1)
    \/ TimerFire(1)
    \/ \E ok \in BOOLEAN : PlaceholderDone(1, ok)
    \/ Waiting(1) /\ WsOpen(1)
    \/ Waiting(1) /\ WsClosed(1)
    \/ \E f \in RouterFrames : \E copy \in CopyChoices(1, f) : Waiting(1) /\ OnMessage(1, f, copy)
    \/ Waiting(1) /\ OnError(1, <<"ECONNRESET">>)
    \/ AskDone(1)
    \/ DeleteDone(1)
    \/ \E ok \in BOOLEAN : PatchDone(1, ok)
    \/ \E ok \in BOOLEAN : SendDone(1, ok)
    \/ \E ok \in BOOLEAN : MediaFetchDone(1, ok)
    \/ \E ok \in BOOLEAN : MediaUploadDone(1, ok)
    \/ MediaSendDone(1)

Spec == InitRouter /\ [][Next]_vars

\* the calls of the vendor client a handler made itself (not its timer)
OwnCalls(h) == {i \in 1..Len(hs[h].calls) : hs[h].calls[i].by = "handler"}
CallsWith(h, ops) == {i \in 1..Len(hs[h].calls) : hs[h].calls[i].op \in ops}

(***************************************************************************)
(* C3: once an event's processing has finished, every placeholder that was  *)
(* sent for it has been edited or deleted (a patch or a delete was issued). *)
(***************************************************************************)
C3_PlaceholderSettled ==
    \A h \in Handlers :
        (hs[h].pc = "done" /\ hs[h].timer = "finished" /\ hs[h].phSent) =>
            CallsWith(h, {"patch", "delete"}) # {}

(***************************************************************************)
(* C4: when the reply text, trimmed, is empty or NO_REPLY, the placeholder  *)
(* sent for the event (if any) is deleted and the handler sends no message. *)
(***************************************************************************)
C4_SilentReply ==
    \A h \in Handlers :
        (hs[h].pc = "done" /\ hs[h].done /\ hs[h].timer # "sending"
            /\ IsSilentExact(hs[h].trimmed)) =>
            /\ hs[h].phSent => CallsWith(h, {"delete"}) # {}
            /\ \A i \in OwnCalls(h) : hs[h].calls[i].op = "delete"

(***************************************************************************)
(* C5: an exchange that failed has its "(System error) ..." text delivered  *)
(* by the time the event is done (a patch or a create carrying it was       *)
(* issued), and the event started one exchange only.                        *)
(***************************************************************************)
C5_FailureReported ==
    \A h \in Handlers :
        (hs[h].pc = "done" /\ hs[h].done /\ hs[h].reply.text # <<>>
            /\ Head(hs[h].reply.text) = "(System error)") =>
            /\ \E i \in OwnCalls(h) :
                  /\ hs[h].calls[i].op \in {"patch", "create"}
                  /\ hs[h].calls[i].text = hs[h].trimmed
            /\ hs[h].asked = 1

\* the events whose text, once trimmed (and, in a group, stripped of mentions), is
\* the reset or the status command, and that pass the gates before the commands:
\* a chat id, not a duplicate, and in a group chat a mention of the bot
CommandEvents(c) ==
    {m \in Messages :
        /\ m.message_type = "text" /\ m.hasContent /\ m.valid
        /\ ToLowerCase(Trim(IF m.chat_type = "group"
                            THEN Trim(StripMentions(Trim(m.text)))
                            ELSE Trim(m.text))) = <<c>>
        /\ m.chat_id # ""
        /\ m.chat_type = "group" => m.mentions > 0}
ResetEvents == CommandEvents("/reset")
StatusEvents == CommandEvents("/status")

(***************************************************************************)
(* C6: an event whose text is /reset or /status opens no exchange and       *)
(* starts no placeholder timer, up to the end of its processing; /reset     *)
(* overwrites the chat's suffix with the clock in base 36 and sends one     *)
(* confirmation; /status sends one report carrying the chat's current        *)
(* session key and leaves the suffix map as it was.                         *)
(***************************************************************************)
C6_CommandsShortCircuit ==
    /\ [](\A h \in Handlers :
            (hs[h].calls # <<>> /\ hs[h].calls[1].text \in {ResetConfirmation, <<"Session:">>}) =>
                /\ Len(hs[h].calls) = 1
                /\ hs[h].pc \in {"resetSend", "statusSend", "done"}
                /\ hs[h].asked = 0 /\ hs[h].timers = 0 /\ hs[h].timer = "none"
                /\ ex[h].ws = "NONE")
    /\ [][nEvents' # nEvents => \A m \in ResetEvents :
            (/\ ~IsDuplicate(m.message_id, seen, now).dup
             /\ HandleMessage(1, m)) =>
                /\ sessionOverrides' =
                     [c \in DOMAIN sessionOverrides \cup {m.chat_id} |->
                         IF c = m.chat_id THEN ToString36(now) ELSE sessionOverrides[c]]
                /\ hs'[1].calls = <<Call("create", "handler", ResetConfirmation, <<>>)>>
                /\ hs'[1].pc = "resetSend"]_vars
    /\ [][nEvents' # nEvents => \A m \in StatusEvents :
            (/\ ~IsDuplicate(m.message_id, seen, now).dup
             /\ HandleMessage(1, m)) =>
                /\ sessionOverrides' = sessionOverrides
                /\ hs'[1].calls =
                     <<Call("create", "handler", <<"Session:">>,
                            IF m.chat_id \in DOMAIN sessionOverrides
                            THEN <<"larksuite", m.chat_id, sessionOverrides[m.chat_id]>>
                            ELSE <<"larksuite", m.chat_id>>)>>
                /\ hs'[1].pc = "statusSend"]_vars

\* a /reset made after the clock moved was processed to its end
C6_Witness ==
    /\ hs[1].pc = "done"
    /\ hs[1].calls = <<Call("create", "handler", ResetConfirmation, <<>>)>>
    /\ "c1" \in DOMAIN sessionOverrides
    /\ sessionOverrides["c1"] = ToString36(now)
    /\ now > 1
    /\ hs[1].asked = 0

(***************************************************************************)
(* The session resolver on its own: resets, status queries and ordinary      *)
(* messages of the chats, one after the other, the agent replying nothing.  *)
(***************************************************************************)
MaxSessionEvents == 4

SessionMessages ==
    {TextMsg(c, "", t, "p2p") : c \in ChatIds, t \in {<<"hi">>, <<"/reset">>, <<"/status">>}}

NextSession ==
    \/ hs[1].pc \in {"idle", "done"} /\ Tick(1)
    \/ \E m \in SessionMessages :
          /\ nEvents < MaxSessionEvents
          /\ HandleMessage(1, m)
          /\ KeysObserved(m)
          /\ UNCHANGED immediate
    \/ CommandSendDone(1)
    \/ Waiting(1) /\ WsOpen(1)
    \/ Waiting(1) /\ OnMessage(1, Lifecycle("agent", "", "end", <<>>), "ok")
    \/ AskDone(1)

SpecSession == Init /\ [][NextSession]_vars

(***************************************************************************)
(* C2: the key resolved for a chat equals the key resolved before it when   *)
(* no reset of the chat came between the two, and differs from every key    *)
(* resolved for the chat earlier when a reset came between.                 *)
(***************************************************************************)
C2_SessionKeys ==
    \A c \in ChatIds :
        LET x == sessHist[c] IN
        x.last # <<>> =>
            IF x.viaReset THEN x.last \notin x.before
            ELSE x.prev # <<>> => x.last = x.prev

(***************************************************************************)
(* The webhook listener: requests come in, are answered, and the message    *)
(* events among them are handed to setImmediate and run later.              *)
(***************************************************************************)
MaxQueue == 2

Tokens == {"", "tok", "bad"}

\* the parsed JSON body ("" for a field that is missing)
Body(type, token, headerToken, hasEvent, headerEventType, eventType, event) ==
    [type |-> type, token |-> token, headerToken |-> headerToken, hasEvent |-> hasEvent,
     headerEventType |-> headerEventType, eventType |-> eventType, event |-> event]

\* a request: body is what the payload says, in the clear or under encryption
Request(method, parses, encrypted, decrypts, body) ==
    [method |-> method, parses |-> parses, encrypted |-> encrypted, decrypts |-> decrypts,
     body |-> body]

WebhookEvents == {TextMsg("c1", "m1", <<"/status">>, "p2p"), TextMsg("c1", "", <<"/reset">>, "p2p")}

NoEvent == TextMsg("", "", <<>>, "p2p")

Bodies ==
    \* schema 1: the token at the top level, the type in the event
    {Body("event_callback", tk, "", TRUE, "", et, ev) :
        tk \in Tokens, et \in {"im.message.receive_v1", "message"}, ev \in WebhookEvents}
    \* schema 2: the token and the event type in the header
    \cup {Body("", "", tk, TRUE, et, "", ev) :
        tk \in Tokens, et \in {"im.message.receive_v1", "im.chat.updated_v1"}, ev \in WebhookEvents}
    \cup {Body("url_verification", tk, "", FALSE, "", "", NoEvent) : tk \in Tokens}
    \cup {Body("", tk, "", FALSE, "", "", NoEvent) : tk \in Tokens}

Requests ==
    {Request(mt, TRUE, FALSE, FALSE, Body("", "", "", FALSE, "", "", NoEvent)) :
        mt \in {"GET /health", "GET /", "PUT"}}
    \cup {Request("POST", FALSE, FALSE, FALSE, Body("", "", "", FALSE, "", "", NoEvent))}
    \cup {Request("POST", TRUE, FALSE, FALSE, b) : b \in Bodies}
    \cup {Request("POST", TRUE, TRUE, d, Body("", "", tk, TRUE, "im.message.receive_v1", "", ev)) :
            d \in BOOLEAN, tk \in Tokens, ev \in WebhookEvents}

\* the body the handler goes on with: an encrypted payload is replaced by its
\* plaintext only when a key is configured
EffectiveBody(req, key) ==
    IF req.encrypted /\ key = ""
    THEN Body("", "", "", FALSE, "", "", NoEvent)
    ELSE req.body

\* the request handler of http.createServer: the status it answers with and
\* whether it passes the event to setImmediate
Respond(req, token, key) ==
    LET body == EffectiveBody(req, key)
        eventType == IF body.headerEventType # "" THEN body.headerEventType ELSE body.eventType
    IN
    IF req.method = "GET /health" THEN [status |-> 200, dispatch |-> FALSE]
    ELSE IF req.method # "POST" THEN [status |-> 405, dispatch |-> FALSE]
    ELSE IF ~req.parses THEN [status |-> 400, dispatch |-> FALSE]
    ELSE IF req.encrypted /\ key # "" /\ ~req.decrypts THEN [status |-> 400, dispatch |-> FALSE]
    ELSE IF body.type = "url_verification" THEN [status |-> 200, dispatch |-> FALSE]
    ELSE IF token # "" /\ body.token # "" /\ body.token # token
    THEN [status |-> 401, dispatch |-> FALSE]
    ELSE [status |-> 200,
          dispatch |-> body.hasEvent /\ eventType = "im.message.receive_v1"]

Webhook(req) ==
    LET r == Respond(req, VERIFICATION_TOKEN, ENCRYPT_KEY) IN
    /\ Len(immediate) < MaxQueue
    /\ lastHttp' = [n |-> 1, req |-> req, status |-> r.status, dispatched |-> r.dispatch]
    /\ immediate' = IF r.dispatch
                    THEN Append(immediate, EffectiveBody(req, ENCRYPT_KEY).event)
                    ELSE immediate
    /\ UNCHANGED <<clockVars, dedupVars, exVars, routerVars, cfgVars, VERIFICATION_TOKEN, ENCRYPT_KEY>>

\* the callback given to setImmediate runs
Dispatch(h) ==
    /\ immediate # <<>>
    /\ Arrives
    /\ HandleMessage(h, Head(immediate))
    /\ immediate' = Tail(immediate)
    /\ UNCHANGED sessHist

NextWebhook ==
    \/ \E req \in Requests : Webhook(req)
    \/ \E h \in Handlers : Dispatch(h)
    \/ \E h \in Handlers : CommandSendDone(h)

SpecWebhook == InitWebhook /\ [][NextWebhook]_vars

(***************************************************************************)
(* C7: with a verification token configured, a request that carries an      *)
(* event and a token other than the configured one is answered 401 and its  *)
(* event is not dispatched.                                                 *)
(***************************************************************************)
C7_TokenMismatchRejected ==
    LET req == lastHttp.req
        carried == IF req.body.token # "" THEN req.body.token ELSE req.body.headerToken
    IN
    (/\ lastHttp.n = 1
     /\ VERIFICATION_TOKEN # ""
     /\ req.method = "POST" /\ req.parses
     /\ req.encrypted => (ENCRYPT_KEY # "" /\ req.decrypts)
     /\ req.body.hasEvent
     /\ carried # "" /\ carried # VERIFICATION_TOKEN) =>
        /\ lastHttp.status = 401
        /\ ~lastHttp.dispatched

(***************************************************************************)
(* C1: for a non-empty id with a recorded first sighting, isDuplicate       *)
(* returns true when called at most 10 minutes after the recorded time and  *)
(* false when called later; and a recorded time changes only once it is     *)
(* more than 10 minutes old (a duplicate hit never refreshes it).           *)
(***************************************************************************)
C1_DedupWindow ==
    /\ [](lastDedup.n = 1 /\ lastDedup.id # "" /\ lastDedup.had =>
            lastDedup.dup = (lastDedup.at - lastDedup.ts <= SEEN_TTL_MS))
    /\ [](lastDedup.n = 1 /\ lastDedup.id # "" /\ ~lastDedup.had => ~lastDedup.dup)
    /\ [][\A id \in DOMAIN seen \cap DOMAIN seen' :
             seen'[id] # seen[id] => now - seen[id] > SEEN_TTL_MS]_vars
    /\ [][\A id \in DOMAIN seen' \ DOMAIN seen : seen'[id] = now]_vars

\* a second sighting exactly 10 minutes after the first is a duplicate
C1_Witness ==
    /\ lastDedup.n = 1 /\ lastDedup.id = "m1" /\ lastDedup.had /\ lastDedup.dup
    /\ lastDedup.at - lastDedup.ts = SEEN_TTL_MS
    /\ seen["m1"] = lastDedup.ts

\* requests an exchange is studied with
ExchangeRequests ==
    {[text |-> <<"hi">>, sessionKey |-> <<"larksuite", "c1">>, mediaPath |-> ""],
     [text |-> <<>>, sessionKey |-> <<"larksuite", "c1">>, mediaPath |-> "p1"]}


\* askMoltbot is called
ExchangeStart(req) ==
    /\ ex[1].ws = "NONE"
    /\ ex' = [ex EXCEPT ![1] = NewExchange(req)]
    /\ UNCHANGED <<clockVars, dedupVars, uuidCtr, routerVars, cfgVars, httpVars>>

NextExchange ==
    \/ \E req \in ExchangeRequests : ExchangeStart(req)
    \/ WsOpen(1)
    \/ WsClosed(1)
    \/ \E f \in Frames : \E copy \in CopyChoices(1, f) : OnMessage(1, f, copy)
    \/ \E m \in TransportErrors : OnError(1, m)

SpecExchange == Init /\ [][NextExchange]_vars

\* the ids of the requests an exchange passed to ws.send, in order
SentIds(e) == [i \in 1..Len(e.sent) |-> e.sent[i].id]

(***************************************************************************)
(* C8: fed challenge, auth success, submission ack with a run id, a full-   *)
(* text assistant frame for the run and a lifecycle end frame, the exchange *)
(* sends the auth request after the challenge and the submission after the  *)
(* auth success, stays pending until the end frame, and then is resolved    *)
(* with the frame's text stripped of the whitespace around it ("Hello"      *)
(* gives "Hello", and so does " Hello"), its socket closed once.            *)
(***************************************************************************)
C8_HelloScenario ==
    LET e == ex[1] IN
    /\ e.scen = 1 => SentIds(e) = <<"connect">> /\ e.outcome = Pending
    /\ e.scen \in {2, 3, 4} =>
          /\ SentIds(e) = <<"connect", "chat-send">>
          /\ e.sent[2].sessionKey = e.req.sessionKey
          /\ e.outcome = Pending
    /\ e.scen = 3 => e.runId # ""
    /\ e.scen = 5 =>
          /\ SentIds(e) = <<"connect", "chat-send">>
          /\ \A i \in 1..2 : e.sent[i].open
          /\ e.outcome.state = "resolved"
          /\ e.outcome.text = Trim(e.scenText)
          /\ e.scenText = <<"Hello">> => e.outcome.text = <<"Hello">>
          /\ e.closes = 1

\* the feed was followed to its end with the frame text "Hello"
C8_Witness ==
    /\ ex[1].scen = 5
    /\ ex[1].scenText = <<"Hello">>
    /\ ex[1].outcome.state = "resolved"
    /\ ex[1].outcome.text = <<"Hello">>

\* C8 as it is worded: at the end of the feed the reply text is the full-text
\* frame's text itself
C8_ReplyIsFrameText ==
    ex[1].scen = 5 => ex[1].outcome.state = "resolved" /\ ex[1].outcome.text = ex[1].scenText

(***************************************************************************)
(* C9: a failing auth result handled by an exchange that is still pending   *)
(* rejects it with the carried error message ("connect failed" when the     *)
(* frame carries none), passes nothing to ws.send, and calls close once,    *)
(* the first close of the exchange.                                         *)
(***************************************************************************)
C9_AuthFailure ==
    [][\A f \in {AuthRes(FALSE, m) : m \in AuthErrors} :
         (ex[1].outcome = Pending /\ OnMessage(1, f, "ok")) =>
            /\ ex'[1].outcome.state = "rejected"
            /\ ex'[1].outcome.text = (IF f.error # <<>> THEN f.error ELSE <<"connect failed">>)
            /\ ex'[1].sent = ex[1].sent
            /\ ex[1].closes = 0
            /\ ex'[1].closes = 1
            /\ ex'[1].ws = "CLOSING"]_vars

C9_Witness ==
    /\ ex[1].outcome.state = "rejected"
    /\ ex[1].outcome.text = <<"denied">>
    /\ SentIds(ex[1]) = <<"connect">>
    /\ ex[1].closes = 1

(***************************************************************************)
(* C10: on every path into Terminal close is invoked exactly once: never    *)
(* zero times once the exchange is settled, never more than once.           *)
(***************************************************************************)
C10_ClosedExactlyOnce ==
    \A h \in Handlers :
        /\ ex[h].outcome.state # "pending" => ex[h].closes = 1
        /\ ex[h].closes <= 1

(***************************************************************************)
(* C11: when the exchange request carries media, every chat submission     *)
(* passed to ws.send carries the media as an attachment inside its         *)
(* parameters.                                                             *)
(***************************************************************************)
C11_MediaEmbedded ==
    \A i \in 1..Len(ex[1].sent) :
        (ex[1].req.mediaPath # "" /\ ex[1].sent[i].id = "chat-send") =>
            ex[1].sent[i].attachments # Absent

\* the media references a handler started the outbound path on, in call order
FetchedUrls(h) ==
    LET fs == SelectSeq(hs[h].calls, LAMBDA c : c.op = "fetch")
    IN [i \in 1..Len(fs) |-> fs[i].text[1]]

\* the operations of the calls a handler made itself, in call order
OwnOps(h) ==
    LET cs == SelectSeq(hs[h].calls, LAMBDA c : c.by = "handler")
    IN [i \in 1..Len(cs) |-> cs[i].op]

(***************************************************************************)
(* C12: once the reply text of an exchange was delivered (the edit of the   *)
(* placeholder or the send of the text succeeded; a reply that is empty or  *)
(* ends with NO_REPLY is not delivered), the media loop starts on the first *)
(* reference of the reply; while it runs the references fetched so far are  *)
(* the first mi of the list, in order; when the event is done every         *)
(* reference was fetched exactly once, in list order, whatever fetch or     *)
(* upload failed in between; every fetch comes after the text delivery,     *)
(* each image sent follows an upload, and the text is not deleted.          *)
(***************************************************************************)
C12_MediaAfterText ==
    /\ [](\A h \in Handlers :
            /\ hs[h].pc \in {"mediaFetch", "mediaUpload", "mediaSend"} =>
                  FetchedUrls(h) = SubSeq(hs[h].reply.mediaUrls, 1, hs[h].mi)
            /\ (hs[h].pc = "done" /\ FetchedUrls(h) # <<>>) =>
                  FetchedUrls(h) = hs[h].reply.mediaUrls
            /\ FetchedUrls(h) # <<>> =>
                  /\ CallsWith(h, {"patch", "create"}) \cap OwnCalls(h) # {}
                  /\ \A i \in CallsWith(h, {"patch", "create"}) \cap OwnCalls(h) :
                        \A j \in CallsWith(h, {"fetch", "upload", "image"}) : i < j
                  /\ CallsWith(h, {"delete"}) = {}
                  /\ \A j \in CallsWith(h, {"image"}) : hs[h].calls[j - 1].op = "upload")
    /\ [][(PatchDone(1, TRUE) /\ hs[1].reply.mediaUrls # <<>>) =>
             hs'[1].pc = "mediaFetch" /\ hs'[1].mi = 1]_vars
    /\ [][(SendDone(1, TRUE) /\ hs[1].reply.mediaUrls # <<>>) =>
             hs'[1].pc = "mediaFetch" /\ hs'[1].mi = 1]_vars

\* a reply with two references: the fetch of the first failed, the second was sent
C12_Witness ==
    /\ hs[1].pc = "done"
    /\ hs[1].reply.mediaUrls = <<"u1", "u2">>
    /\ FetchedUrls(1) = <<"u1", "u2">>
    /\ OwnOps(1) = <<"create", "fetch", "fetch", "upload", "image">>

\* C12 as it is worded: every settled exchange whose reply carries media references
\* has each of them fetched, in list order, by the time the event is done
C12_EveryMediaRelayed ==
    \A h \in Handlers :
        (hs[h].pc = "done" /\ hs[h].done /\ hs[h].reply.mediaUrls # <<>>) =>
            FetchedUrls(h) = hs[h].reply.mediaUrls

\* the image keys a handler called downloadImage with, in call order
Downloads(h) ==
    LET ds == SelectSeq(hs[h].calls, LAMBDA c : c.op = "download")
    IN [i \in 1..Len(ds) |-> ds[i].text[1]]

\* the posts whose body embeds several images
ImagePosts == {post \in Posts : Len(PostImageKeys(post.lines)) > 1}

(***************************************************************************)
(* C13: a handler calls downloadImage at most once for an event; for a      *)
(* rich-post message with several images the call is made for the first     *)
(* image key in document order, and when it has returned, with a path or    *)
(* with a failure, the handler goes on without another call.                *)
(***************************************************************************)
C13_FirstImageOnly ==
    /\ [](\A h \in Handlers : Len(Downloads(h)) <= 1)
    /\ [][nEvents' # nEvents =>
            \A post \in ImagePosts :
                (HandleMessage(1, PostMsg("c1", "m1", post))
                    /\ ~IsDuplicate("m1", seen, now).dup) =>
                   /\ hs'[1].pc = "download"
                   /\ Downloads(1)' = <<PostImageKeys(post.lines)[1]>>]_vars
    /\ [][\A ok \in BOOLEAN :
            DownloadDone(1, ok) =>
               /\ hs'[1].pc # "download"
               /\ Downloads(1)' = Downloads(1)
               /\ hs'[1].pc = "asking" =>
                     ex'[1].req.mediaPath = (IF ok THEN Downloads(1)[1] ELSE "")]_vars

\* a post with two images was asked about after the fetch of its first image failed
C13_Witness ==
    /\ hs[1].pc = "asking"
    /\ Downloads(1) = <<"k1">>
    /\ ex[1].req.mediaPath = ""
    /\ \E post \in ImagePosts :
          /\ PostImageKeys(post.lines) = <<"k1", "k2">>
          /\ ex[1].req.text = PostText(post)

\* whether the exchange has had the gateway's challenge (each one is answered by a
\* connect request)
Challenged(e) == \E i \in 1..Len(e.sent) : e.sent[i].id = "connect"

(***************************************************************************)
(* C14: a frame other than the challenge that arrives before the challenge  *)
(* was received is ignored: nothing is passed to ws.send, the reply buffer  *)
(* and the run id stay as they were, and the exchange is not settled.       *)
(***************************************************************************)
C14_IgnoredBeforeChallenge ==
    [][\A f \in Frames \ {Challenge} : \A copy \in CopyOutcomes :
         (~Challenged(ex[1]) /\ OnMessage(1, f, copy)) =>
            /\ ex'[1].sent = ex[1].sent
            /\ ex'[1].buf = ex[1].buf
            /\ ex'[1].runId = ex[1].runId
            /\ ex'[1].outcome = ex[1].outcome]_vars

\* the positions in e.sent of the chat submissions that went out on the open socket
ChatSends(e) == {i \in 1..Len(e.sent) : e.sent[i].id = "chat-send" /\ e.sent[i].open}

(***************************************************************************)
(* C15: whatever frames the gateway sends, an exchange transmits at most    *)
(* one chat submission, every submission follows a connect request, and no  *)
(* two submissions carry the same idempotency key.                          *)
(***************************************************************************)
C15_OneSubmission ==
    \A h \in Handlers :
        /\ Cardinality(ChatSends(ex[h])) <= 1
        /\ \A i \in ChatSends(ex[h]) : \E j \in 1..(i - 1) : ex[h].sent[j].id = "connect"
        /\ \A i, j \in ChatSends(ex[h]) :
              ex[h].sent[i].idempotencyKey = ex[h].sent[j].idempotencyKey => i = j

(***************************************************************************)
(* The stream of one exchange                                               *)
(***************************************************************************)
\* tokens the reply buffer of the exchange whose stream is followed may hold
MaxStreamBuf == 2

\* the frames of a handshake that succeeds
HandshakeFrames == {Challenge} \cup {f \in Frames : f.type = "res" /\ f.ok}

\* the agent and chat events
StreamFrames == {f \in Frames : f.type = "event" /\ f.event \in {"agent", "chat"}}

\* the gateway runs the handshake in order: the challenge first, the auth result
\* after the auth request, an ack after the submission
InOrder(e, f) ==
    Len(e.sent) = (IF f = Challenge THEN 0 ELSE IF f.id = "connect" THEN 1 ELSE 2)

\* a frame arrives: the "message" listener runs, and the stream is noted down
StreamMessage(h, f) ==
    LET e == ex[h]
        after == HandleFrame(e, f, uuidCtr + 1, "ok")
    IN
    /\ e.ws \in {"OPEN", "CLOSING"}
    /\ Len(after.buf) <= MaxStreamBuf
    /\ Len(after.sent) <= MaxSent
    /\ after.closes <= MaxCloses
    /\ e.outcome # Pending => e.late < MaxLate
    /\ ex' = [ex EXCEPT ![h] = [after EXCEPT !.scen = ScenarioStep(e, f),
                                             !.scenText = ScenarioText(e, f),
                                             !.late = IF e.outcome # Pending THEN @ + 1 ELSE @,
                                             !.obs = Observe(e, f, after)]]
    /\ uuidCtr' = IF CallsUuid(f) THEN uuidCtr + 1 ELSE uuidCtr
    /\ UNCHANGED <<clockVars, dedupVars, routerVars, cfgVars, httpVars>>

NextStream ==
    \/ ExchangeStart([text |-> <<"hi">>, sessionKey |-> <<"larksuite", "c1">>, mediaPath |-> ""])
    \/ WsOpen(1)
    \/ \E f \in HandshakeFrames : InOrder(ex[1], f) /\ StreamMessage(1, f)
    \/ \E f \in StreamFrames : StreamMessage(1, f)

SpecStream == Init /\ [][NextStream]_vars

(***************************************************************************)
(* C16: once the exchange knows its run, every frame that changed the reply *)
(* buffer, the media list or the outcome of the exchange, at any time since *)
(* the exchange began, carried the id of that run.                          *)
(***************************************************************************)
C16_NoCrossTalk ==
    \A h \in Handlers : ex[h].runId # "" => ex[h].obs.runs \subseteq {ex[h].runId}

(***************************************************************************)
(* C17: once a run id has been recorded, an agent or chat event frame whose *)
(* run id differs from it (a frame with no run id or no payload included)   *)
(* leaves the reply buffer, the media list, the outcome, the socket and the *)
(* requests sent as they were.                                              *)
(***************************************************************************)
C17_OtherRunsDiscarded ==
    [][\A f \in StreamFrames :
         (ex[1].runId # "" /\ f.runId # ex[1].runId /\ StreamMessage(1, f)) =>
            /\ ex'[1].buf = ex[1].buf
            /\ ex'[1].mediaUrls = ex[1].mediaUrls
            /\ ex'[1].outcome = ex[1].outcome
            /\ ex'[1].runId = ex[1].runId
            /\ ex'[1].ws = ex[1].ws
            /\ ex'[1].closes = ex[1].closes
            /\ ex'[1].sent = ex[1].sent]_vars

\* a frame of another run came while the exchange was streaming run r1, and the
\* exchange went on to its reply
C17_Witness ==
    /\ ex[1].runId = "r1"
    /\ ex[1].obs.dropped
    /\ ex[1].obs.runs = {"r1"}
    /\ ex[1].outcome.state = "resolved"
    /\ ex[1].outcome.text = <<"Hello">>

\* the lifecycle frames of the stream with the given phase
LifecycleFrames(phase) ==
    {f \in StreamFrames : f.hasPayload /\ f.stream = "lifecycle" /\ f.phase = phase}

(***************************************************************************)
(* C19: an exchange that was resolved has for reply text the fold of the    *)
(* assistant frames it let through, in arrival order (a full text replaces  *)
(* the buffer, a delta is appended to it), stripped of the whitespace       *)
(* around it, and for media list the list of the last such frame that       *)
(* carried one; a lifecycle end frame let through by a pending exchange     *)
(* resolves it so, and a lifecycle error frame rejects it with the message  *)
(* the frame carries ("agent error" when it carries none).                  *)
(***************************************************************************)
C19_ReplyIsFold ==
    /\ [](\A h \in Handlers :
            ex[h].outcome.state = "resolved" =>
               /\ ex[h].outcome.text = Trim(ex[h].obs.fold)
               /\ ex[h].outcome.mediaUrls = ex[h].obs.media)
    /\ [][\A f \in LifecycleFrames("end") :
            (/\ ex[1].outcome = Pending
             /\ ex[1].runId \in {"", f.runId}
             /\ StreamMessage(1, f)) =>
                /\ ex'[1].outcome.state = "resolved"
                /\ ex'[1].outcome.text = Trim(ex[1].obs.fold)
                /\ ex'[1].outcome.mediaUrls = ex[1].obs.media]_vars
    /\ [][\A f \in LifecycleFrames("error") :
            (/\ ex[1].outcome = Pending
             /\ ex[1].runId \in {"", f.runId}
             /\ StreamMessage(1, f)) =>
                /\ ex'[1].outcome.state = "rejected"
                /\ ex'[1].outcome.text =
                      (IF f.message # <<>> THEN f.message ELSE <<"agent error">>)]_vars

\* a full text, then a delta of white space and a media list: the reply is the text
C19_Witness ==
    /\ ex[1].outcome.state = "resolved"
    /\ ex[1].obs.fold = <<"Hello", SP>>
    /\ ex[1].outcome.text = <<"Hello">>
    /\ ex[1].outcome.mediaUrls = <<"u1">>

\* the submission acks of the alphabet
AckFrames == {f \in Frames : f.type = "res" /\ f.id = "chat-send"}

(***************************************************************************)
(* C18: a successful submission ack handled by a pending exchange records   *)
(* the run id it carries (none carried: the run id stays as it was) and     *)
(* leaves the exchange pending, its socket and its close count untouched    *)
(* and nothing sent; a failing ack calls close once more and rejects the    *)
(* exchange with the carried message ("chat.send failed" when none).        *)
(***************************************************************************)
C18_SubmissionAck ==
    [][\A f \in AckFrames :
         (ex[1].outcome = Pending /\ OnMessage(1, f, "ok")) =>
            /\ ex'[1].sent = ex[1].sent
            /\ ex'[1].buf = ex[1].buf
            /\ f.ok =>
                  /\ ex'[1].runId = (IF f.runId # "" THEN f.runId ELSE ex[1].runId)
                  /\ ex'[1].outcome = Pending
                  /\ ex'[1].closes = ex[1].closes
                  /\ ex'[1].ws = ex[1].ws
            /\ ~f.ok =>
                  /\ ex'[1].outcome.state = "rejected"
                  /\ ex'[1].outcome.text =
                        (IF f.error # <<>> THEN f.error ELSE <<"chat.send failed">>)
                  /\ ex'[1].closes = ex[1].closes + 1
                  /\ ex'[1].ws # "OPEN"
                  /\ ex'[1].runId = ex[1].runId]_vars

\* after the handshake the ack recorded run r1, and the exchange waits for the stream
C18_Witness ==
    /\ ex[1].runId = "r1"
    /\ ex[1].outcome = Pending
    /\ ex[1].ws = "OPEN"
    /\ ex[1].closes = 0
    /\ ex[1].buf = <<>>
    /\ SentIds(ex[1]) = <<"connect", "chat-send">>

(***************************************************************************)
(* C20: a transport error met by a pending exchange, whatever the socket    *)
(* was doing (connecting, open at any point of the handshake or of the      *)
(* stream, closing), calls close once more and rejects the exchange with    *)
(* the error's message, sending nothing; and once the socket is gone no     *)
(* request is passed to it any more.                                        *)
(***************************************************************************)
C20_TransportError ==
    /\ [][\A m \in TransportErrors :
            (ex[1].outcome = Pending /\ OnError(1, m)) =>
               /\ ex'[1].outcome.state = "rejected"
               /\ ex'[1].outcome.text = m
               /\ ex'[1].closes = ex[1].closes + 1
               /\ ex'[1].ws = "CLOSED"
               /\ ex'[1].sent = ex[1].sent]_vars
    /\ [][ex[1].ws = "CLOSED" => ex'[1].sent = ex[1].sent /\ ex'[1].ws = "CLOSED"]_vars
    /\ [][\A i \in 1..Len(ex'[1].sent) :
            (ex[1].closes > 0 /\ i > Len(ex[1].sent)) => ~ex'[1].sent[i].open]_vars

\* the transport failed while the exchange was streaming run r1
C20_Witness ==
    /\ ex[1].outcome.state = "rejected"
    /\ ex[1].outcome.text = <<"ECONNRESET">>
    /\ ex[1].runId = "r1"
    /\ ex[1].buf = <<"Hello">>
    /\ ex[1].closes = 1
    /\ ex[1].ws = "CLOSED"
    /\ SentIds(ex[1]) = <<"connect", "chat-send">>

\* the calls of the vendor client made by a handler's placeholder timer
TimerCalls(h) == {i \in 1..Len(hs[h].calls) : hs[h].calls[i].by = "timer"}

(***************************************************************************)
(* C21: once the exchange of an event has completed (its promise is         *)
(* settled, or the handler has set done) no step adds a placeholder send    *)
(* for that event; a timer still pending at completion is cleared, and      *)
(* then no placeholder was or will be sent for the event; with a threshold  *)
(* of 0 no timer is created and the timer sends nothing.                    *)
(***************************************************************************)
C21_NoStalePlaceholder ==
    /\ [](\A h \in Handlers :
            /\ hs[h].done => hs[h].timer # "pending"
            /\ hs[h].timer = "cleared" =>
                  /\ hs[h].done
                  /\ TimerCalls(h) = {}
                  /\ ~hs[h].phSent
                  /\ hs[h].placeholderId = ""
            /\ THINKING_THRESHOLD_MS <= 0 =>
                  /\ hs[h].timer = "none"
                  /\ hs[h].timers = 0
                  /\ TimerCalls(h) = {})
    /\ [][(nEvents' = nEvents
             /\ (hs[1].done \/ (hs[1].pc = "asking" /\ ex[1].outcome # Pending))) =>
            Cardinality(TimerCalls(1)') = Cardinality(TimerCalls(1))]_vars

\* the exchange settled before the threshold elapsed: the timer was cleared and the
\* reply was sent as a fresh message
C21_Witness ==
    /\ THINKING_THRESHOLD_MS > 0
    /\ hs[1].pc = "done"
    /\ hs[1].done
    /\ hs[1].timer = "cleared"
    /\ hs[1].timers = 1
    /\ OwnOps(1) = <<"create">>
    /\ hs[1].calls[1].text = <<"Hello">>

\* the frames that end an exchange by the book: a failing auth result, a failing
\* submission ack, or, once the submission is out, a lifecycle end or error frame of
\* the run (of any run while the ack has named none)
EndsExchange(e, f) ==
    \/ f.type = "res" /\ f.id \in {"connect", "chat-send"} /\ ~f.ok
    \/ /\ IsStreamEvent(f) /\ f.stream = "lifecycle" /\ f.phase \in {"end", "error"}
       /\ ChatSends(e) # {}
       /\ e.runId \in {"", f.runId}

(***************************************************************************)
(* C22: a pending exchange is settled by nothing but a transport error, a   *)
(* failing auth result, a failing submission ack, or a lifecycle end or     *)
(* error frame of its run; no passing of time and no other frame settles    *)
(* it.                                                                      *)
(***************************************************************************)
C22_NoOtherWayOut ==
    [][(ex[1].outcome = Pending /\ ex'[1].outcome # Pending) =>
          \/ \E m \in TransportErrors : OnError(1, m)
          \/ \E f \in Frames : \E copy \in CopyOutcomes :
                OnMessage(1, f, copy) /\ EndsExchange(ex[1], f)]_vars

(***************************************************************************)
(* Handlers running side by side                                            *)
(***************************************************************************)
\* events delivered more than once: the same id with several contents, and another id
ConcurrentMessages ==
    {TextMsg("c1", "m1", t, "p2p") : t \in {<<"hi">>, <<"/reset">>, <<"/status">>}}
    \cup {ImageMsg("c1", "m1", "k1", "p2p")}
    \cup {TextMsg("c1", "m2", t, "p2p") : t \in {<<"hi">>, <<"/reset">>}}

\* the clock advances between two deliveries
ConcurrentTicks == {1, SEEN_TTL_MS}

\* the process with no placeholder threshold
InitConcurrent == InitWith({0}, {""}, {""})

NextConcurrent ==
    \/ \E h \in Handlers : \E m \in ConcurrentMessages :
          Arrives /\ HandleMessage(h, m) /\ UNCHANGED <<immediate, sessHist>>
    \/ \E d \in ConcurrentTicks : Arrives /\ Tick(d)
    \/ \E h \in Handlers : \E ok \in BOOLEAN : DownloadDone(h, ok)
    \/ \E h \in Handlers : CommandSendDone(h)
    \/ \E h \in Handlers : Waiting(h) /\ OnError(h, <<"ECONNRESET">>)
    \/ \E h \in Handlers : AskDone(h)
    \/ \E h \in Handlers : \E ok \in BOOLEAN : SendDone(h, ok)

SpecConcurrent == InitConcurrent /\ [][NextConcurrent]_vars

\* whether message id was let through the dedup gate no more than the TTL ago
InWindow(id) == id \in DOMAIN seen /\ now - seen[id] <= SEEN_TTL_MS

(***************************************************************************)
(* C23: whatever handlers are suspended at that moment, a handler entered   *)
(* for a non-empty message id that was let through the gate within the TTL  *)
(* stops at the gate: it starts no exchange, no reset and no status action  *)
(* and calls nothing; a handler that is let through finds no entry of the   *)
(* window for its id and leaves one dated now, and nothing else dates an    *)
(* entry. So within one window one handler at most goes past the gate for   *)
(* an id.                                                                   *)
(***************************************************************************)
C23_OnePastTheGate ==
    /\ [][nEvents' # nEvents =>
            \A h \in Handlers : \A m \in ConcurrentMessages :
                (HandleMessage(h, m) /\ InWindow(m.message_id)) =>
                   /\ hs'[h].pc = "done"
                   /\ hs'[h].calls = <<>>
                   /\ ex'[h] = NoExchange
                   /\ sessionOverrides' = sessionOverrides
                   /\ seen'[m.message_id] = seen[m.message_id]]_vars
    /\ [][nEvents' # nEvents =>
            \A h \in Handlers : \A m \in ConcurrentMessages :
                (HandleMessage(h, m) /\ hs'[h].pc # "done") =>
                   /\ ~InWindow(m.message_id)
                   /\ m.message_id \in DOMAIN seen'
                   /\ seen'[m.message_id] = now]_vars
    /\ [][\A id \in DOMAIN seen' :
            (id \notin DOMAIN seen \/ seen'[id] # seen[id]) =>
               nEvents' # nEvents /\ seen'[id] = now]_vars

\* the second delivery of m1 was stopped at the gate while the handler of the first
\* waits for its exchange
C23_Witness ==
    /\ nEvents = 2
    /\ hs[1].pc = "asking" /\ ex[1].outcome = Pending
    /\ hs[2].pc = "done" /\ hs[2].calls = <<>> /\ hs[2].chatId = "c1"
    /\ DOMAIN seen = {"m1"}

(***************************************************************************)
(* C24: the session key a handler gives its exchange, and the key of every  *)
(* submission the exchange makes, is the key the chat had when the handler  *)
(* was entered, whatever reset of the chat another handler made while this  *)
(* one was suspended at its image fetch or at its exchange.                 *)
(***************************************************************************)
C24_KeyAtEntry ==
    \A h \in Handlers :
        hs[h].pc = "asking" =>
            /\ ex[h].req.sessionKey = hs[h].entryKey
            /\ \A i \in 1..Len(ex[h].sent) :
                  ex[h].sent[i].id = "chat-send" => ex[h].sent[i].sessionKey = hs[h].entryKey

====
